---- MODULE Spec2Model ----
(***************************************************************************)
(* One run of main() of colmapwork/gen_images.py: resolve the input to a   *)
(* local video (download it or check that it exists), open it, validate    *)
(* perc_frames, recreate the sibling "images" directory, compute the       *)
(* sampled frame indices and write one JPEG per index.                     *)
(*                                                                         *)
(* The program counter pc is named after the source line about to run.     *)
(* Strings are TLA+ strings; a pathlib.Path is a record of its parent, the *)
(* stem and the suffix of its last component; the file system is a set of  *)
(* <<directory, file name>> keys plus one "images" directory per parent.   *)
(* perc_frames is the rational num/den, kept as the pair <<num, den>>, and *)
(* the float quotient 1 / perc_frames is its exact value den/num.          *)
(* clip.duration is counted in half seconds so that int(fps * duration)    *)
(* really truncates.  What the libraries may do (a constructor raising, an *)
(* empty stream list, a frame that fails to decode or to save) is chosen   *)
(* nondeterministically.                                                   *)
(***************************************************************************)
EXTENDS Integers, Sequences, FiniteSets, TLC

\* ---- bounds of the explored inputs --------------------------------------
MaxDen == 3
MaxFrames == 3
NegFrames == 2
MaxFps == 2
MaxDurHalves == 10

VARIABLES
    input,          \* the --path argument, as given
    perc_frames,    \* the --perc-frames argument <<num, den>>
    max_frames,     \* the --max-frames argument
    video_fps,      \* frame rate of the video that gets opened
    video_dur,      \* its duration, in half seconds
    files,          \* the files that exist: <<directory, name>>
    images,         \* per parent directory: its "images" directory
    images0,        \* images as it was when the run started
    pc,             \* source line about to execute, or "done"
    path,           \* the local variable path, once it is a Path
    streams,        \* result of yt.streams.filter(...): stream names
    video_stream,   \* result of get_highest_resolution()
    saved_to,       \* where download() wrote the stream, <<>> if nowhere
    open_arg,       \* the file handed to VideoFileClip, <<>> if none
    clip,           \* TRUE once VideoFileClip has returned
    total_frames,
    frame_step,
    frame_indices,
    i,              \* position of the for loop in frame_indices (1-based)
    decoded,        \* number of clip.get_frame calls made
    written,        \* frame numbers saved so far, in order
    fetches,        \* number of YouTube(...) constructions
    downloads,      \* number of video_stream.download calls
    out,            \* the lines printed
    outcome,        \* "running", "success", "error" (printed + return), "exception"
    raised_at       \* line whose exception left main, "" if none

vars == <<input, perc_frames, max_frames, video_fps, video_dur, files, images,
          images0, pc, path, streams, video_stream, saved_to, open_arg, clip,
          total_frames, frame_step, frame_indices, i, decoded, written,
          fetches, downloads, out, outcome, raised_at>>

\* ---- helpers ------------------------------------------------------------
Max(a, b) == IF a >= b THEN a ELSE b
Min(a, b) == IF a <= b THEN a ELSE b
Last(s) == s[Len(s)]
NoPath == [parent |-> "", stem |-> "", suffix |-> ""]

\* the argument strings tried: [scheme, parent, stem, suffix]
Arg(sc, pa, st, su) == [scheme |-> sc, parent |-> pa, stem |-> st, suffix |-> su]
Inputs ==
    { Arg("https://", "youtu.be", "abc", ""),
      Arg("http://", "youtu.be", "abc", ""),
      Arg("", ".", "video", ".mp4"),
      Arg("", "clips", "video", ".mp4"),
      Arg("", ".", "missing", ".mp4"),
      Arg("", ".", "notes", ".txt"),
      Arg("ftp://", "host", "video", ".mp4") }

\* path.startswith("http://") or path.startswith("https://")
IsUrl(s) == s.scheme = "http://" \/ s.scheme = "https://"

\* Path(path) for a str
PathOf(s) == [parent |-> s.scheme \o s.parent, stem |-> s.stem, suffix |-> s.suffix]

\* Path.name, Path.parent, Path.with_suffix, str(Path) as a file-system key
Name(p) == p.stem \o p.suffix
Parent(p) == p.parent
WithSuffix(p, suffix) == [p EXCEPT !.suffix = suffix]
FsKey(p) == <<Parent(p), Name(p)>>

\* Path("downloaded_video")
video_path == [parent |-> ".", stem |-> "downloaded_video", suffix |-> ""]

\* Stream.download(output_path, filename): the file it writes
DownloadTarget(output_path, filename) == <<output_path, filename>>

\* a check that takes every path to exist
ExistsAlways(p, fs) == TRUE

\* Path.exists()
Exists(p, fs) == FsKey(p) \in fs

\* the files VideoFileClip can read
IsVideo(key) == key[2] \in {"video.mp4", "downloaded_video", "downloaded_video.mp4"}

Parents == {".", "clips"}
Absent == [exists |-> FALSE, files |-> {}]
Dir(fs) == [exists |-> TRUE, files |-> fs]
PriorDirs == { Absent, Dir({}), Dir({"0.jpg", "9.jpg", "notes.txt"}) }

\* output_dir = path.parent / "images"
OutputDir(p) == Parent(p)
OutputDirStr(p) == Parent(p) \o "/images"

\* int(x) of the rational n/d, d > 0: truncation toward zero
PyInt(n, d) == IF n >= 0 THEN n \div d ELSE -((-n) \div d)

\* the validation without its upper limit
ValidPercNoUpper(p) == 0 < p[1]

\* 0 < perc_frames <= 1
ValidPerc(p) == 0 < p[1] /\ p[1] <= p[2]

\* the stride rounded up instead of truncated
FrameStepCeil(p) == Max(1, PyInt(p[2] + p[1] - 1, p[1]))

\* max(1, int(1 / perc_frames))
FrameStep(p) == Max(1, PyInt(p[2], p[1]))

\* len(range(0, stop, step)), step > 0
RangeLen(stop, step) == IF stop > 0 THEN (stop + step - 1) \div step ELSE 0

\* slice(None, m).indices(n)[1]: the stop of [:m] on a sequence of length n
SliceStop(m, n) == IF m < 0 THEN Max(m + n, 0) ELSE Min(m, n)

\* list(range(0, total, step)[:m])
RangeSlice(total, step, m) ==
    [j \in 1..SliceStop(m, RangeLen(total, step)) |-> (j - 1) * step]

\* the file named by the one-based frame number
TargetOneBased(fnum) == ToString(fnum + 1) \o ".jpg"

\* f"{fnum}.jpg"
Target(fnum) == ToString(fnum) \o ".jpg"

\* ---- initial states -----------------------------------------------------
Fractions == { <<n, d>> : n \in (-1)..(MaxDen + 1), d \in 1..MaxDen }

BaseFiles == { <<".", "video.mp4">>, <<"clips", "video.mp4">>, <<".", "notes.txt">> }
StaleDownload == <<".", "downloaded_video.mp4">>

Init ==
    /\ input \in Inputs
    /\ perc_frames \in { f \in Fractions : f[1] <= f[2] + 1 }
    /\ max_frames \in (-NegFrames)..MaxFrames
    /\ video_fps \in 1..MaxFps
    /\ video_dur \in 0..MaxDurHalves
    /\ \E stale \in BOOLEAN :
          /\ (stale => IsUrl(input))
          /\ files = BaseFiles \cup (IF stale THEN {StaleDownload} ELSE {})
    /\ \E d \in PriorDirs :
          images = [pa \in Parents |->
                      IF pa = Parent(IF IsUrl(input) THEN video_path ELSE PathOf(input))
                      THEN d ELSE Dir({"keep.jpg"})]
    /\ images0 = images
    /\ pc = "l22"
    /\ path = NoPath
    /\ streams = {}
    /\ video_stream = ""
    /\ saved_to = <<>>
    /\ open_arg = <<>>
    /\ clip = FALSE
    /\ total_frames = 0
    /\ frame_step = 0
    /\ frame_indices = <<>>
    /\ i = 1
    /\ decoded = 0
    /\ written = <<>>
    /\ fetches = 0
    /\ downloads = 0
    /\ out = <<>>
    /\ outcome = "running"
    /\ raised_at = ""

\* ---- ways a run ends ----------------------------------------------------
\* print(msg); return
ReturnEarly(msg) ==
    /\ out' = Append(out, msg)
    /\ outcome' = "error"
    /\ pc' = "done"
    /\ raised_at' = raised_at

\* an exception no handler catches leaves main
Propagate(line) ==
    /\ outcome' = "exception"
    /\ raised_at' = line
    /\ pc' = "done"
    /\ out' = out

\* ---- input resolution, lines 22-51 --------------------------------------
\* line 22 true, line 25
UrlBranch ==
    /\ pc = "l22" /\ IsUrl(input)
    /\ out' = Append(out, "Downloading video from YouTube...")
    /\ pc' = "l26"
    /\ UNCHANGED <<input, perc_frames, max_frames, video_fps, video_dur, files,
                   images, images0, path, streams, video_stream, saved_to,
                   open_arg, clip, total_frames, frame_step, frame_indices, i,
                   decoded, written, fetches, downloads, outcome, raised_at>>

\* lines 43-45: except Exception as e: print; return
FetchError == ReturnEarly("Error downloading video: ")

\* line 26 returns
YouTubeOk ==
    /\ pc = "l26"
    /\ fetches' = fetches + 1
    /\ pc' = "l29"
    /\ UNCHANGED <<input, perc_frames, max_frames, video_fps, video_dur, files,
                   images, images0, path, streams, video_stream, saved_to,
                   open_arg, clip, total_frames, frame_step, frame_indices, i,
                   decoded, written, downloads, out, outcome, raised_at>>

\* line 26 raises
YouTubeRaises ==
    /\ pc = "l26"
    /\ fetches' = fetches + 1
    /\ FetchError
    /\ UNCHANGED <<input, perc_frames, max_frames, video_fps, video_dur, files,
                   images, images0, path, streams, video_stream, saved_to,
                   open_arg, clip, total_frames, frame_step, frame_indices, i,
                   decoded, written, downloads>>

\* line 29 returns some (possibly empty) list of mp4 streams
FilterOk ==
    /\ pc = "l29"
    /\ streams' \in { {}, {"mp4-audio-only"}, {"mp4-360p", "mp4-720p"} }
    /\ pc' = "l31"
    /\ UNCHANGED <<input, perc_frames, max_frames, video_fps, video_dur, files,
                   images, images0, path, video_stream, saved_to, open_arg,
                   clip, total_frames, frame_step, frame_indices, i, decoded,
                   written, fetches, downloads, out, outcome, raised_at>>

\* line 29 raises (the stream list is fetched lazily, over the network)
FilterRaises ==
    /\ pc = "l29"
    /\ FetchError
    /\ UNCHANGED <<input, perc_frames, max_frames, video_fps, video_dur, files,
                   images, images0, path, streams, video_stream, saved_to,
                   open_arg, clip, total_frames, frame_step, frame_indices, i,
                   decoded, written, fetches, downloads>>

\* lines 31-33
NoStream ==
    /\ pc = "l31" /\ streams = {}
    /\ ReturnEarly("Error: No suitable MP4 video stream found.")
    /\ UNCHANGED <<input, perc_frames, max_frames, video_fps, video_dur, files,
                   images, images0, path, streams, video_stream, saved_to,
                   open_arg, clip, total_frames, frame_step, frame_indices, i,
                   decoded, written, fetches, downloads>>

\* line 36: the best progressive stream, None when there is none
SelectStream ==
    /\ pc = "l31" /\ streams # {}
    /\ video_stream' = IF "mp4-720p" \in streams THEN "mp4-720p" ELSE "None"
    /\ pc' = "l40"
    /\ UNCHANGED <<input, perc_frames, max_frames, video_fps, video_dur, files,
                   images, images0, path, streams, saved_to, open_arg, clip,
                   total_frames, frame_step, frame_indices, i, decoded, written,
                   fetches, downloads, out, outcome, raised_at>>

\* lines 39-42: download, print, path = video_path.with_suffix(".mp4")
DownloadOk ==
    /\ pc = "l40" /\ video_stream # "None"
    /\ downloads' = downloads + 1
    /\ saved_to' = DownloadTarget(Parent(video_path), Name(video_path))
    /\ files' = files \cup {saved_to'}
    /\ out' = Append(out, "Downloaded video to " \o Name(video_path))
    /\ path' = WithSuffix(video_path, ".mp4")
    /\ pc' = "l54"
    /\ UNCHANGED <<input, perc_frames, max_frames, video_fps, video_dur, images,
                   images0, streams, video_stream, open_arg, clip, total_frames,
                   frame_step, frame_indices, i, decoded, written, fetches,
                   outcome, raised_at>>

\* the failed fetch outside the try block
DownloadRaisesUncaught ==
    /\ pc = "l40" /\ video_stream # "None"
    /\ downloads' = downloads + 1
    /\ outcome' = "exception" /\ raised_at' = "l40" /\ pc' = "done"
    /\ UNCHANGED <<input, perc_frames, max_frames, video_fps, video_dur, files,
                   images, images0, path, streams, video_stream, saved_to,
                   open_arg, clip, total_frames, frame_step, frame_indices, i,
                   decoded, written, fetches, out>>

\* line 40 raises: the fetch fails
DownloadRaises ==
    /\ pc = "l40" /\ video_stream # "None"
    /\ downloads' = downloads + 1
    /\ FetchError
    /\ UNCHANGED <<input, perc_frames, max_frames, video_fps, video_dur, files,
                   images, images0, path, streams, video_stream, saved_to,
                   open_arg, clip, total_frames, frame_step, frame_indices, i,
                   decoded, written, fetches>>

\* line 40 on None: AttributeError, caught like any other Exception
DownloadOnNone ==
    /\ pc = "l40" /\ video_stream = "None"
    /\ FetchError
    /\ UNCHANGED <<input, perc_frames, max_frames, video_fps, video_dur, files,
                   images, images0, path, streams, video_stream, saved_to,
                   open_arg, clip, total_frames, frame_step, frame_indices, i,
                   decoded, written, fetches, downloads>>

\* lines 46-48, the path exists
LocalFound ==
    /\ pc = "l22" /\ ~IsUrl(input)
    /\ Exists(PathOf(input), files)
    /\ path' = PathOf(input)
    /\ pc' = "l54"
    /\ UNCHANGED <<input, perc_frames, max_frames, video_fps, video_dur, files,
                   images, images0, streams, video_stream, saved_to, open_arg,
                   clip, total_frames, frame_step, frame_indices, i, decoded,
                   written, fetches, downloads, out, outcome, raised_at>>

\* lines 46-51, the path does not exist
LocalMissing ==
    /\ pc = "l22" /\ ~IsUrl(input)
    /\ ~Exists(PathOf(input), files)
    /\ path' = PathOf(input)
    /\ ReturnEarly("Error: File does not exist.")
    /\ UNCHANGED <<input, perc_frames, max_frames, video_fps, video_dur, files,
                   images, images0, streams, video_stream, saved_to, open_arg,
                   clip, total_frames, frame_step, frame_indices, i, decoded,
                   written, fetches, downloads>>

\* ---- open and validate, lines 54-60 -------------------------------------
\* lines 54-55
OpenOk ==
    /\ pc = "l54"
    /\ FsKey(path) \in files /\ IsVideo(FsKey(path))
    /\ open_arg' = FsKey(path)
    /\ clip' = TRUE
    /\ total_frames' = PyInt(video_fps * video_dur, 2)
    /\ pc' = "l58"
    /\ UNCHANGED <<input, perc_frames, max_frames, video_fps, video_dur, files,
                   images, images0, path, streams, video_stream, saved_to,
                   frame_step, frame_indices, i, decoded, written, fetches,
                   downloads, out, outcome, raised_at>>

\* line 54 raises: the file is missing or is no video
OpenRaises ==
    /\ pc = "l54"
    /\ ~(FsKey(path) \in files /\ IsVideo(FsKey(path)))
    /\ open_arg' = FsKey(path)
    /\ Propagate("l54")
    /\ UNCHANGED <<input, perc_frames, max_frames, video_fps, video_dur, files,
                   images, images0, path, streams, video_stream, saved_to, clip,
                   total_frames, frame_step, frame_indices, i, decoded, written,
                   fetches, downloads>>

\* lines 58-60
PercInvalid ==
    /\ pc = "l58" /\ ~ValidPerc(perc_frames)
    /\ ReturnEarly("Error: perc_frames must be between 0 and 1.")
    /\ UNCHANGED <<input, perc_frames, max_frames, video_fps, video_dur, files,
                   images, images0, path, streams, video_stream, saved_to,
                   open_arg, clip, total_frames, frame_step, frame_indices, i,
                   decoded, written, fetches, downloads>>

PercValid ==
    /\ pc = "l58" /\ ValidPerc(perc_frames)
    /\ pc' = "l64"
    /\ UNCHANGED <<input, perc_frames, max_frames, video_fps, video_dur, files,
                   images, images0, path, streams, video_stream, saved_to,
                   open_arg, clip, total_frames, frame_step, frame_indices, i,
                   decoded, written, fetches, downloads, out, outcome, raised_at>>

\* ---- output directory, lines 63-65 --------------------------------------
\* line 64, shutil.rmtree(output_dir) on an existing directory
Rmtree ==
    /\ pc = "l64" /\ images[OutputDir(path)].exists
    /\ images' = [images EXCEPT ![OutputDir(path)] = Absent]
    /\ pc' = "l65"
    /\ UNCHANGED <<input, perc_frames, max_frames, video_fps, video_dur, files,
                   images0, path, streams, video_stream, saved_to, open_arg,
                   clip, total_frames, frame_step, frame_indices, i, decoded,
                   written, fetches, downloads, out, outcome, raised_at>>

\* rmtree(output_dir, ignore_errors=True) on a missing directory
RmtreeIgnoreErrors ==
    /\ pc = "l64" /\ ~images[OutputDir(path)].exists
    /\ pc' = "l65"
    /\ UNCHANGED <<input, perc_frames, max_frames, video_fps, video_dur, files,
                   images, images0, path, streams, video_stream, saved_to,
                   open_arg, clip, total_frames, frame_step, frame_indices, i,
                   decoded, written, fetches, downloads, out, outcome, raised_at>>

\* line 64 on a missing directory: FileNotFoundError
RmtreeMissing ==
    /\ pc = "l64" /\ ~images[OutputDir(path)].exists
    /\ Propagate("l64")
    /\ UNCHANGED <<input, perc_frames, max_frames, video_fps, video_dur, files,
                   images, images0, path, streams, video_stream, saved_to,
                   open_arg, clip, total_frames, frame_step, frame_indices, i,
                   decoded, written, fetches, downloads>>

\* line 65, output_dir.mkdir(); the directory was just removed
Mkdir ==
    /\ pc = "l65" /\ ~images[OutputDir(path)].exists
    /\ images' = [images EXCEPT ![OutputDir(path)] = Dir({})]
    /\ pc' = "l68"
    /\ UNCHANGED <<input, perc_frames, max_frames, video_fps, video_dur, files,
                   images0, path, streams, video_stream, saved_to, open_arg,
                   clip, total_frames, frame_step, frame_indices, i, decoded,
                   written, fetches, downloads, out, outcome, raised_at>>

\* ---- sampling, lines 68-71 ----------------------------------------------
Sample ==
    /\ pc = "l68"
    /\ frame_step' = FrameStep(perc_frames)
    /\ frame_indices' = RangeSlice(total_frames, frame_step', max_frames)
    /\ out' = Append(out, "Extracting frames to " \o OutputDirStr(path) \o "...")
    /\ i' = 1
    /\ pc' = "l74"
    /\ UNCHANGED <<input, perc_frames, max_frames, video_fps, video_dur, files,
                   images, images0, path, streams, video_stream, saved_to,
                   open_arg, clip, total_frames, decoded, written, fetches,
                   downloads, outcome, raised_at>>

\* ---- extraction, lines 74-83 --------------------------------------------
\* the directory after Image.save(target) has returned
SaveResult(dir, fnum) == Dir(dir.files \cup {Target(fnum)})

\* a failed save that leaves its truncated file behind
SavePartialResult(dir, fnum) == Dir(dir.files \cup {Target(fnum)})

\* the directory after Image.save(target) has raised: save removes the file
\* it had created
SaveFailedResult(dir, fnum) == dir

\* lines 74-81, one iteration that succeeds
SaveFrame ==
    /\ pc = "l74" /\ i <= Len(frame_indices)
    /\ decoded' = decoded + 1
    /\ images' = [images EXCEPT ![OutputDir(path)] = SaveResult(@, frame_indices[i])]
    /\ written' = Append(written, frame_indices[i])
    /\ i' = i + 1
    /\ UNCHANGED <<input, perc_frames, max_frames, video_fps, video_dur, files,
                   images0, pc, path, streams, video_stream, saved_to, open_arg,
                   clip, total_frames, frame_step, frame_indices, fetches,
                   downloads, out, outcome, raised_at>>

\* line 76 raises: the frame at fnum / fps cannot be decoded
GetFrameRaises ==
    /\ pc = "l74" /\ i <= Len(frame_indices)
    /\ decoded' = decoded + 1
    /\ Propagate("l76")
    /\ UNCHANGED <<input, perc_frames, max_frames, video_fps, video_dur, files,
                   images, images0, path, streams, video_stream, saved_to,
                   open_arg, clip, total_frames, frame_step, frame_indices, i,
                   written, fetches, downloads>>

\* line 81 raises: the frame was decoded, the image cannot be written
SaveRaises ==
    /\ pc = "l74" /\ i <= Len(frame_indices)
    /\ decoded' = decoded + 1
    /\ images' = [images EXCEPT ![OutputDir(path)] = SaveFailedResult(@, frame_indices[i])]
    /\ Propagate("l81")
    /\ UNCHANGED <<input, perc_frames, max_frames, video_fps, video_dur, files,
                   images0, path, streams, video_stream, saved_to, open_arg,
                   clip, total_frames, frame_step, frame_indices, i, written,
                   fetches, downloads>>

\* the line printed at line 83
CompleteMsg(n, dir) ==
    "Frame extraction complete. " \o ToString(n) \o " frames saved in " \o dir \o "."

\* line 83, after the loop
Finish ==
    /\ pc = "l74" /\ i > Len(frame_indices)
    /\ out' = Append(out, CompleteMsg(Len(frame_indices), OutputDirStr(path)))
    /\ outcome' = "success"
    /\ pc' = "done"
    /\ UNCHANGED <<input, perc_frames, max_frames, video_fps, video_dur, files,
                   images, images0, path, streams, video_stream, saved_to,
                   open_arg, clip, total_frames, frame_step, frame_indices, i,
                   decoded, written, fetches, downloads, raised_at>>

Next ==
    \/ UrlBranch \/ YouTubeOk \/ YouTubeRaises \/ FilterOk \/ FilterRaises
    \/ NoStream \/ SelectStream \/ DownloadOk \/ DownloadRaises \/ DownloadOnNone
    \/ LocalFound \/ LocalMissing
    \/ OpenOk \/ OpenRaises \/ PercInvalid \/ PercValid
    \/ Rmtree \/ RmtreeMissing \/ Mkdir
    \/ Sample
    \/ SaveFrame \/ GetFrameRaises \/ SaveRaises \/ Finish

Spec == Init /\ [][Next]_vars

TypeOK ==
    /\ pc \in {"l22", "l26", "l29", "l31", "l40", "l54", "l58", "l64", "l65",
               "l68", "l74", "done"}
    /\ outcome \in {"running", "success", "error", "exception"}
    /\ (pc = "done") = (outcome # "running")

\* ---- properties ---------------------------------------------------------
FileOf(k) == ToString(k) \o ".jpg"
InUnitInterval(f) == f[1] > 0 /\ f[1] <= f[2]
Sampled == frame_step # 0
Multiples(total, s) == { k \in 0..(total - 1) : k % s = 0 }
\* s = max(1, floor(1 / f)) for the fraction f = num/den, without dividing
IsStride(s, f) == s >= 1 /\ (s + 1) * f[1] > f[2] /\ (s = 1 \/ s * f[1] <= f[2])
NoStreamMsg == "Error: No suitable MP4 video stream found."
FetchErrorMsg == "Error downloading video: "
PercMsg == "Error: perc_frames must be between 0 and 1."
MissingMsg == "Error: File does not exist."

\* C1: for a fraction in (0, 1], total_frames >= 0 and max_frames >= 0, the
\* frame step is max(1, floor(1 / fraction)) and the sampled indices are the
\* multiples of the step below total_frames, in ascending order, cut to the
\* first max_frames of them; these are the frames written, in this order.
\* Fraction 1 gives step 1, fraction 1/2 gives step 2, and total_frames = 10,
\* max_frames = 3, fraction 1 give exactly <<0, 1, 2>>.
C1_SampledIndices ==
    (Sampled /\ max_frames >= 0) =>
        LET M == Multiples(total_frames, frame_step) IN
        /\ InUnitInterval(perc_frames) /\ total_frames >= 0
        /\ IsStride(frame_step, perc_frames)
        /\ Len(frame_indices) = Min(max_frames, Cardinality(M))
        /\ \A j \in 1..Len(frame_indices) :
              /\ frame_indices[j] \in M
              /\ Cardinality({ k \in M : k < frame_indices[j] }) = j - 1
        /\ Len(written) <= Len(frame_indices)
        /\ \A j \in 1..Len(written) : written[j] = frame_indices[j]
        /\ (outcome = "success" => written = frame_indices)
        /\ (perc_frames[1] = perc_frames[2] => frame_step = 1)
        /\ (2 * perc_frames[1] = perc_frames[2] => frame_step = 2)
        /\ (total_frames = 10 /\ max_frames = 3 /\ perc_frames[1] = perc_frames[2]
              => frame_indices = <<0, 1, 2>>)

C1_Witness ==
    /\ outcome = "success" /\ total_frames = 10 /\ max_frames = 3
    /\ perc_frames = <<1, 1>> /\ written = <<0, 1, 2>>

\* C2: the number of frames written never exceeds max(0, max_frames),
\* whatever integer max_frames is.
C2_WrittenWithinCap == Len(written) <= Max(0, max_frames)

C4_MissingLocalPath ==
    (~IsUrl(input) /\ FsKey(PathOf(input)) \notin files) =>
        /\ ~clip /\ open_arg = <<>> /\ images = images0
        /\ written = <<>> /\ decoded = 0
        /\ pc \in {"l22", "done"}
        /\ (pc = "done" => outcome = "error" /\ out = <<MissingMsg>>)

C4_Witness ==
    /\ pc = "done" /\ input = Arg("", ".", "missing", ".mp4")
    /\ out = <<MissingMsg>> /\ InUnitInterval(perc_frames)

\* C5: after a run that completes extraction the images directory holds
\* exactly the files <index>.jpg of the sampled indices, one per index, none
\* of the files of a prior run, and the count reported is the number of files.
C5_ExactlySampledFiles ==
    outcome = "success" =>
        LET d == images[Parent(path)] IN
        /\ d.exists
        /\ d.files = { FileOf(frame_indices[j]) : j \in 1..Len(frame_indices) }
        /\ Cardinality(d.files) = Len(frame_indices)
        /\ Last(out) = "Frame extraction complete. " \o ToString(Cardinality(d.files))
                          \o " frames saved in " \o Parent(path) \o "/images."

C5_Witness ==
    /\ outcome = "success" /\ Len(written) >= 2
    /\ "9.jpg" \in images0[Parent(path)].files
    /\ "9.jpg" \notin images[Parent(path)].files

\* C6: every run ends in success or in a printed error and an early return;
\* no exception leaves main.
C6_NoExceptionLeavesMain == outcome # "exception"

\* C7: with the video open, a valid fraction and no images directory next to
\* the video, the run ends with the exception of the removal at line 64; the
\* directory is never created and no frame is decoded or written.
C7_MissingDirAborts ==
    (clip /\ InUnitInterval(perc_frames) /\ ~images0[Parent(path)].exists) =>
        /\ ~images[Parent(path)].exists
        /\ decoded = 0 /\ written = <<>>
        /\ pc \in {"l58", "l64", "done"}
        /\ (pc = "done" => outcome = "exception" /\ raised_at = "l64")

C7_Witness ==
    /\ pc = "done" /\ raised_at = "l64" /\ ~images[Parent(path)].exists
    /\ total_frames > 0 /\ max_frames > 0

\* C8: after a successful download the file main opens as the video is the
\* file the download was saved to.
C8_OpensSavedFile ==
    (saved_to # <<>> /\ open_arg # <<>>) => open_arg = saved_to

\* C9: for a URL whose fetch does not succeed (no MP4 stream, or a step that
\* raises) main prints an error and returns early after a single attempt:
\* the video is never opened, the images directories are untouched, and in
\* the no-stream case no download is attempted.
C9_FetchFailure ==
    /\ fetches <= 1 /\ downloads <= 1
    /\ (IsUrl(input) /\ saved_to = <<>>) =>
        /\ ~clip /\ open_arg = <<>> /\ images = images0 /\ written = <<>>
        /\ (streams = {} => downloads = 0)
        /\ (pc = "done" =>
              /\ outcome = "error"
              /\ Last(out) \in {NoStreamMsg, FetchErrorMsg}
              /\ (Last(out) = NoStreamMsg => streams = {} /\ downloads = 0))
    /\ (pc = "l40" => streams # {})

C9_Witness ==
    /\ pc = "done" /\ IsUrl(input) /\ downloads = 1 /\ saved_to = <<>>
    /\ Last(out) = FetchErrorMsg

\* C10: frames are written in ascending index order, and when decoding or
\* saving fails at the k-th sampled index the images directory holds exactly
\* the files of the first k sampled indices; no completion line is printed.
C10_PartialOutput ==
    /\ \A j \in 1..(Len(written) - 1) : written[j] < written[j + 1]
    /\ raised_at \in {"l76", "l81"} =>
        LET d == images[Parent(path)]
            k == i - 1
        IN  /\ k >= 0 /\ k < Len(frame_indices) /\ Len(written) = k
            /\ d.exists
            /\ d.files = { FileOf(frame_indices[j]) : j \in 1..k }
            /\ Cardinality(d.files) = k
            /\ outcome = "exception"
            /\ \A m \in 1..Len(out) :
                  out[m] # CompleteMsg(Len(frame_indices), OutputDirStr(path))

C10_Witness ==
    /\ raised_at = "l81" /\ Len(written) = 2 /\ Len(frame_indices) > 2
    /\ "9.jpg" \in images0[Parent(path)].files

====
